---- MODULE Spec2Model ----
(***************************************************************************)
(* Model of the Bedrock series-name extractor command-line client:         *)
(* main.go (flag handling, validation, dispatch) and the five adapters     *)
(* nova, llama, llama70b, claude, deepseek (InvokeModel, PrintResponse).   *)
(*                                                                         *)
(* A text is a sequence of characters; a character is a one-character      *)
(* string.  Fixed messages that no pattern inspects are written as one     *)
(* symbol holding the whole message.                                       *)
(***************************************************************************)
EXTENDS Integers, Sequences, FiniteSets, TLC

\* ------------------------------------------------------------------ bounds

\* Largest number of chunks concatenated into one generated text.
MaxParts == 3

\* ------------------------------------------------------------- characters

Q == "\""

\* Vertical tab, next line (U+0085) and no-break space (U+00A0): white space
\* for strings.TrimSpace, not for the regular expression class \s.
VT == "\\v"
NEL == "\\u0085"
NBSP == "\\u00a0"

\* regexp/syntax: \s is [\t\n\f\r ].
ReSpace == {" ", "\t", "\n", "\f", "\r"}

\* unicode.IsSpace on Latin-1: '\t', '\n', '\v', '\f', '\r', ' ', U+0085, U+00A0.
UnicodeSpace == {" ", "\t", "\n", "\f", "\r", VT, NEL, NBSP}

\* The literal "series" (with its quotes) of both patterns.
SeriesKey == <<Q, "s", "e", "r", "i", "e", "s", Q>>

\* ----------------------------------------------------- regular expressions
\* A position is an index into the text (1-based); Len(t)+1 is the end.
\* 0 stands for "no match" and is passed through by every step.

\* A literal of the pattern at position i: the position after it, or 0.
Lit(t, i, lit) ==
  IF i = 0 \/ i + Len(lit) - 1 > Len(t) THEN 0
  ELSE IF SubSeq(t, i, i + Len(lit) - 1) = lit THEN i + Len(lit) ELSE 0

\* \s* at position i (greedy): the position after the run of white space.
\* What follows \s* in both patterns is a literal that is no white space, so
\* no shorter run can lead to a match: greedy is the only candidate.
RECURSIVE SkipSpace(_, _)
SkipSpace(t, i) ==
  IF i = 0 THEN 0
  ELSE IF i <= Len(t) /\ t[i] \in ReSpace THEN SkipSpace(t, i + 1) ELSE i

\* [^"]* at position i (greedy): the position of the next double quote, or
\* the end of the text.  The pattern continues with a double quote, so again
\* greedy is the only candidate.
RECURSIVE SkipNotQuote(_, _)
SkipNotQuote(t, i) ==
  IF i = 0 THEN 0
  ELSE IF i <= Len(t) /\ t[i] # Q THEN SkipNotQuote(t, i + 1) ELSE i

NoMatch == [ok |-> FALSE, val |-> <<>>, from |-> 0, to |-> 0]

\* "series"\s*:\s*"([^"]*)" anchored at position i.
LooseAt(t, i) ==
  LET p1 == Lit(t, i, SeriesKey)
      p2 == Lit(t, SkipSpace(t, p1), <<":">>)
      p3 == Lit(t, SkipSpace(t, p2), <<Q>>)
      p4 == SkipNotQuote(t, p3)
      p5 == Lit(t, p4, <<Q>>)
  IN IF p5 = 0 THEN NoMatch
     ELSE [ok |-> TRUE, val |-> SubSeq(t, p3, p4 - 1), from |-> i, to |-> p5 - 1]

\* \[\s*{\s*"series"\s*:\s*"([^"]*)"\s*}\s*\] anchored at position i.
StrictAt(t, i) ==
  LET p1 == Lit(t, i, <<"[">>)
      p2 == Lit(t, SkipSpace(t, p1), <<"{">>)
      m  == IF p2 = 0 THEN NoMatch ELSE LooseAt(t, SkipSpace(t, p2))
      p3 == IF m.ok THEN Lit(t, SkipSpace(t, m.to + 1), <<"}">>) ELSE 0
      p4 == Lit(t, SkipSpace(t, p3), <<"]">>)
  IN IF p4 = 0 THEN NoMatch
     ELSE [ok |-> TRUE, val |-> m.val, from |-> i, to |-> p4 - 1]

\* Regexp.FindStringSubmatch: the match at the leftmost position where the
\* pattern matches, or nil (NoMatch).
RECURSIVE FindLooseFrom(_, _)
FindLooseFrom(t, i) ==
  IF i > Len(t) THEN NoMatch
  ELSE IF LooseAt(t, i).ok THEN LooseAt(t, i) ELSE FindLooseFrom(t, i + 1)

RECURSIVE FindStrictFrom(_, _)
FindStrictFrom(t, i) ==
  IF i > Len(t) THEN NoMatch
  ELSE IF StrictAt(t, i).ok THEN StrictAt(t, i) ELSE FindStrictFrom(t, i + 1)

\* Mutant of seriesPattern: the pattern without \s* between the key and the colon.
LooseTightAt(t, i) ==
  LET p2 == Lit(t, Lit(t, i, SeriesKey), <<":">>)
      p3 == Lit(t, SkipSpace(t, p2), <<Q>>)
      p4 == SkipNotQuote(t, p3)
      p5 == Lit(t, p4, <<Q>>)
  IN IF p5 = 0 THEN NoMatch
     ELSE [ok |-> TRUE, val |-> SubSeq(t, p3, p4 - 1), from |-> i, to |-> p5 - 1]

RECURSIVE FindLooseTightFrom(_, _)
FindLooseTightFrom(t, i) ==
  IF i > Len(t) THEN NoMatch
  ELSE IF LooseTightAt(t, i).ok THEN LooseTightAt(t, i) ELSE FindLooseTightFrom(t, i + 1)

seriesPatternTight(t) == FindLooseTightFrom(t, 1)

\* Mutant of jsonPattern: the rightmost match instead of the leftmost.
RECURSIVE FindStrictBack(_, _)
FindStrictBack(t, i) ==
  IF i < 1 THEN NoMatch
  ELSE IF StrictAt(t, i).ok THEN StrictAt(t, i) ELSE FindStrictBack(t, i - 1)

jsonPatternRightmost(t) == FindStrictBack(t, Len(t))

seriesPattern(t) == FindLooseFrom(t, 1)

jsonPattern(t) == FindStrictFrom(t, 1)

\* strings.TrimSpace: the text without its leading and trailing white space.
RECURSIVE TrimLeft(_)
TrimLeft(t) ==
  IF t # <<>> /\ Head(t) \in UnicodeSpace THEN TrimLeft(Tail(t)) ELSE t

RECURSIVE TrimRight(_)
TrimRight(t) ==
  IF t # <<>> /\ t[Len(t)] \in UnicodeSpace
  THEN TrimRight(SubSeq(t, 1, Len(t) - 1)) ELSE t

\* Mutant of TrimSpace: only the leading white space removed.
TrimSpaceLeftOnly(t) == TrimLeft(t)

TrimSpace(t) == TrimRight(TrimLeft(t))

\* Mutant of SeriesLine: the value is trimmed before it is written.
SeriesLineTrimmed(v) ==
  <<"[", "{">> \o SeriesKey \o <<":", " ", Q>> \o TrimSpace(v) \o <<Q, "}", "]">>

\* Mutant of SeriesLine: the value is written with %q, in quotes of its own.
SeriesLineQuoted(v) ==
  <<"[", "{">> \o SeriesKey \o <<":", " ", Q, Q>> \o v \o <<Q, Q, "}", "]">>

\* fmt.Printf("[{\"series\": \"%s\"}]\n", v), without the line's newline.
SeriesLine(v) == <<"[", "{">> \o SeriesKey \o <<":", " ", Q>> \o v \o <<Q, "}", "]">>

\* Mutant of ExtractLine: the loose pattern is tried before the strict one.
ExtractLineLooseFirst(t) ==
  IF seriesPattern(t).ok THEN SeriesLine(seriesPattern(t).val)
  ELSE IF jsonPattern(t).ok THEN SeriesLine(jsonPattern(t).val)
  ELSE TrimSpace(t)

\* The line PrintResponse of nova, claude and llama70b writes for a text:
\* the strict pattern, else the loose pattern, else the trimmed text.
ExtractLine(t) ==
  IF jsonPattern(t).ok THEN SeriesLine(jsonPattern(t).val)
  ELSE IF seriesPattern(t).ok THEN SeriesLine(seriesPattern(t).val)
  ELSE TrimSpace(t)

\* ------------------------------------------------------------------ main.go

\* The five names of validModels and of the dispatch switch.
Nova == <<"n", "o", "v", "a">>
Llama == <<"l", "l", "a", "m", "a">>
Llama70b == <<"l", "l", "a", "m", "a", "7", "0", "b">>
Claude == <<"c", "l", "a", "u", "d", "e">>
Deepseek == <<"d", "e", "e", "p", "s", "e", "e", "k">>

\* Mutant of validModels: a name the switch has no case for is left in the map.
validModelsStale == {Nova, Llama, Llama70b, Claude, Deepseek, <<"g", "p", "t">>}

validModels == {Nova, Llama, Llama70b, Claude, Deepseek}

\* The cases of the switch on modelName.
switchCases == {Nova, Llama, Llama70b, Claude, Deepseek}

UpperLetters ==
  <<"A", "B", "C", "D", "E", "F", "G", "H", "I", "J", "K", "L", "M",
    "N", "O", "P", "Q", "R", "S", "T", "U", "V", "W", "X", "Y", "Z">>

LowerLetters ==
  <<"a", "b", "c", "d", "e", "f", "g", "h", "i", "j", "k", "l", "m",
    "n", "o", "p", "q", "r", "s", "t", "u", "v", "w", "x", "y", "z">>

\* strings.ToLower: every upper-case letter replaced by its lower-case one.
ToLower(s) ==
  [i \in 1..Len(s) |->
     IF \E k \in 1..26 : UpperLetters[k] = s[i]
     THEN LowerLetters[CHOOSE k \in 1..26 : UpperLetters[k] = s[i]]
     ELSE s[i]]

\* The default of inputSeriesName; no pattern inspects it: one symbol.
DefaultInput == <<"Friends Season 001 Episode 001">>

\* promptTemplate: the text before the verb, the verb %s, the text after it.
promptTemplate ==
  <<"You are a series name extraction tool that ONLY outputs valid JSON. INPUT: \"",
    "%s",
    "\" INSTRUCTIONS: ... output [{\"series\": \"Friends\"}]">>

\* fmt.Sprintf(format, arg) for a format with %s verbs only.
RECURSIVE Sprintf(_, _)
Sprintf(format, arg) ==
  IF format = <<>> THEN <<>>
  ELSE IF Head(format) = "%s" THEN arg \o Sprintf(Tail(format), <<>>)
  ELSE <<Head(format)>> \o Sprintf(Tail(format), arg)

\* Mutant of MissingCredentials: the run ends only when all three are missing.
MissingCredentialsAll(accessKeyId, secretAccessKey, awsRegion) ==
  accessKeyId = "" /\ secretAccessKey = "" /\ awsRegion = ""

\* main.go:83, the test that ends the run when a value is missing.
MissingCredentials(accessKeyId, secretAccessKey, awsRegion) ==
  accessKeyId = "" \/ secretAccessKey = "" \/ awsRegion = ""

\* -------------------------------------------------------------- the inputs

\* The -model flag: the five names, an upper-case spelling, an unknown name
\* and the empty string.  An omitted flag is the default "nova".
ModelFlags ==
  validModels \cup {<<"N", "O", "V", "A">>, <<"g", "p", "t">>, <<>>}

\* The -input flag: omitted (the default "") or given.
InputFlags == {<<>>, <<"L", "o", "s", "t">>}

\* The option name the user's text is written with on the command line.
OptionNames == {"input", "prompt"}

\* What os.Getenv returns for each of the three variables after godotenv.Load:
\* "" when the variable is unset or empty.
Environments ==
  [AWS_ACCESS_KEY_ID : {"", "AKIA"},
   AWS_SECRET_ACCESS_KEY : {"", "secret"},
   AWS_REGION : {"", "us-east-2"}]

\* The chunks generated texts are concatenated from.
ChunkStrictA == SeriesLine(<<"A">>)

ChunkStrictB ==
  <<"[", " ", "{", "\n">> \o SeriesKey \o <<"\t", ":", Q, " ", "b", " ", "B", " ", Q, " ", "}", "\n", "]">>

ChunkLooseC == SeriesKey \o <<":", " ", Q, "C", Q>>

ChunkLooseEmpty == SeriesKey \o <<" ", ":", Q, Q>>

Chunks ==
  {ChunkStrictA, ChunkStrictB, ChunkLooseC, ChunkLooseEmpty,
   <<Q>>, <<"\n">>, <<"x", " ", "y">>, <<"[", "{">>, <<"}", "]">>}

RECURSIVE TextsOf(_)
TextsOf(n) ==
  IF n = 0 THEN {<<>>}
  ELSE TextsOf(n - 1) \cup {c \o t : c \in Chunks, t \in TextsOf(n - 1)}

Texts == TextsOf(MaxParts)

\* ------------------------------------------------------------ the responses

\* Usage.InputTokens and Usage.OutputTokens of a decoded response; both are 0
\* when the backend omits them.
Usages ==
  {[InputTokens |-> 0, OutputTokens |-> 0],
   [InputTokens |-> 12, OutputTokens |-> 0],
   [InputTokens |-> 12, OutputTokens |-> 5]}

\* The second item of a two-item content list.
SecondItem == SeriesLine(<<"Z">>)

\* Content lists: empty, one item, two items.
ContentLists(T) ==
  {<<>>} \cup {<<t>> : t \in T} \cup {<<t, SecondItem>> : t \in TextsOf(1)}

\* nova.Response
NovaResponses(T) ==
  {[Output |-> [Content |-> [i \in 1..Len(c) |-> [Text |-> c[i]]]], Usage |-> u] :
     c \in ContentLists(T), u \in Usages}

\* llama.Response and llama70b.Response
LlamaResponses(T) == {[Generation |-> t, Usage |-> u] : t \in T, u \in Usages}

\* claude.Response
ClaudeResponses(T) ==
  {[Content |-> [i \in 1..Len(c) |-> [Type |-> "text", Text |-> c[i]]], Usage |-> u] :
     c \in ContentLists(T), u \in Usages}

\* deepseek.Response
DeepseekResponses(T) ==
  {[Choices |-> [i \in 1..Len(c) |-> [Message |-> [Role |-> "assistant", Content |-> c[i]]]],
    Usage |-> u] : c \in ContentLists(T), u \in Usages}

\* The values a well-formed response body of a backend decodes to.
Responses(m, T) ==
  CASE m = Nova -> NovaResponses(T)
    [] m = Llama -> LlamaResponses(T)
    [] m = Llama70b -> LlamaResponses(T)
    [] m = Claude -> ClaudeResponses(T)
    [] m = Deepseek -> DeepseekResponses(T)

NoResponse == [Usage |-> [InputTokens |-> 0, OutputTokens |-> 0]]

\* output.Body: bytes json.Unmarshal into the Response rejects (ok is FALSE;
\* object tells whether they still decode into a map[string]interface{}), or
\* the value they decode to.
MalformedBodies == {[ok |-> FALSE, object |-> o, value |-> NoResponse] : o \in BOOLEAN}

NoBody == [ok |-> FALSE, object |-> FALSE, value |-> NoResponse]

Bodies(m, T) ==
  MalformedBodies \cup {[ok |-> TRUE, object |-> TRUE, value |-> r] : r \in Responses(m, T)}

\* ------------------------------------------------------------- the payloads
\* Temperature and TopP are in thousandths.

NovaPayload(p) ==
  [InferenceConfig |-> [MaxNewTokens |-> 512, Temperature |-> 700, TopP |-> 900],
   Messages |-> <<[Role |-> "user", Content |-> <<[Text |-> p]>>]>>]

LlamaPayload(p) ==
  [Prompt |-> p, MaxGenLen |-> 512, Temperature |-> 700, TopP |-> 900]

\* Mutant of Llama70bPayload: the sampling reduced to nothing, top_p 0.
Llama70bPayloadGreedy(p) ==
  [Prompt |-> p, MaxGenLen |-> 64, Temperature |-> 0, TopP |-> 0]

Llama70bPayload(p) ==
  [Prompt |-> p, MaxGenLen |-> 64, Temperature |-> 10, TopP |-> 500]

ClaudePayload(p) ==
  [AnthropicVersion |-> "bedrock-2023-05-31", MaxTokens |-> 200, TopK |-> 250,
   StopSequences |-> <<>>, Temperature |-> 1000, TopP |-> 999,
   Messages |-> <<[Role |-> "user", Content |-> <<[Type |-> "text", Text |-> p]>>]>>]

DeepseekPayload(p) ==
  [InferenceConfig |-> [MaxTokens |-> 512],
   Messages |-> <<[Role |-> "user", Content |-> p]>>]

Payload(m, p) ==
  CASE m = Nova -> NovaPayload(p)
    [] m = Llama -> LlamaPayload(p)
    [] m = Llama70b -> Llama70bPayload(p)
    [] m = Claude -> ClaudePayload(p)
    [] m = Deepseek -> DeepseekPayload(p)

NoPayload == [Prompt |-> <<>>]

\* ----------------------------------------------------------------- the state

VARIABLES
  pc,               \* where the run is: start, env, dispatch, config, marshal,
                    \* invoke, unmarshal, print, done, exited
  modelFlag,        \* *modelFlag
  inputFlag,        \* *inputSeriesNameFlag
  inputOption,      \* the option name the user's text is given with
  env,              \* what os.Getenv returns for the three variables
  modelName,        \* main: modelName
  inputSeriesName,  \* main: inputSeriesName
  prompt,           \* main: prompt
  entered,          \* the adapters whose InvokeModel was called, in order
  payload,          \* InvokeModel: payloadBytes (the value they encode)
  invokeCalls,      \* the number of calls of client.InvokeModel
  body,             \* InvokeModel: output.Body
  response,         \* InvokeModel: response
  stdout,           \* what fmt.Print* wrote, one entry per call
  stderr,           \* what log.Print* and log.Fatalf wrote, one entry per call
  exitCode          \* the exit status: -1 while the run has not ended

vars ==
  <<pc, modelFlag, inputFlag, inputOption, env, modelName, inputSeriesName, prompt,
    entered,
    payload, invokeCalls, body, response, stdout, stderr, exitCode>>

\* One write: what it says (kind), the characters written without the final
\* newline (text) and, for a token count, the number (n).
Entry(kind, text, n) == [kind |-> kind, text |-> text, n |-> n]

\* log.Fatalf(msg): the message on the log, then os.Exit(1).
Fatalf(msg) ==
  /\ stderr' = Append(stderr, Entry("fatal", <<msg>>, 0))
  /\ exitCode' = 1
  /\ pc' = "exited"

\* Mutant of InputOrDefault: the flag's value is used as it is.
InputAsGiven(flagValue) == flagValue

\* main.go:44-47: the value of -input, or the default when it is empty.
InputOrDefault(flagValue) ==
  IF flagValue = <<>> THEN DefaultInput ELSE flagValue

\* main.go:36-37: the flags the program defines.
definedFlags == {"model", "input"}

\* main.go:40, flag.Parse on the default flag set (flag.ExitOnError): an
\* option that is not defined is reported on the log with the usage, and the
\* run ends with status 2.
ParseError ==
  /\ stderr' = Append(stderr, Entry("flagerror", <<"flag provided but not defined: -", inputOption>>, 0))
  /\ exitCode' = 2
  /\ pc' = "exited"

\* main.go:34-67: the flags, the prompt, the two validations.
Start ==
  /\ pc = "start"
  /\ IF inputOption \notin definedFlags
     THEN ParseError /\ UNCHANGED <<modelName, inputSeriesName, prompt>>
     ELSE /\ modelName' = ToLower(modelFlag)
          /\ inputSeriesName' = InputOrDefault(inputFlag)
          /\ prompt' = Sprintf(promptTemplate, inputSeriesName')
          /\ IF modelName' \notin validModels
             THEN Fatalf("Invalid model specified. Use 'nova', 'llama', 'llama70b', 'claude', or 'deepseek'")
             ELSE IF inputSeriesName' = <<>>
             THEN Fatalf("Input series name cannot be empty. Provide a valid input using the -input flag.")
             ELSE pc' = "env" /\ UNCHANGED <<stderr, exitCode>>
  /\ UNCHANGED <<modelFlag, inputFlag, inputOption, env, entered, payload, invokeCalls,
                 body, response, stdout>>

\* main.go:69-85: godotenv.Load (its error is a warning only), the three
\* variables, the diagnostics, the test for a missing value.
LoadEnvironment ==
  /\ pc = "env"
  /\ stdout' = Append(stdout, Entry("progress", <<"Loading environment variables...">>, 0))
  /\ \E loadFailed \in BOOLEAN :
       LET warned == IF loadFailed
                     THEN Append(stderr, Entry("warning", <<"Warning: Error loading .env file">>, 0))
                     ELSE stderr
           logged == warned \o
                     <<Entry("diagnostic", <<"Using AWS region: ", env.AWS_REGION>>, 0),
                       Entry("diagnostic", <<"AWS access key ID present">>, 0),
                       Entry("diagnostic", <<"AWS secret access key present">>, 0)>>
       IN IF MissingCredentials(env.AWS_ACCESS_KEY_ID, env.AWS_SECRET_ACCESS_KEY, env.AWS_REGION)
          THEN /\ stderr' = Append(logged, Entry("fatal", <<"Missing required environment variables">>, 0))
               /\ exitCode' = 1
               /\ pc' = "exited"
          ELSE /\ stderr' = logged
               /\ pc' = "dispatch"
               /\ UNCHANGED exitCode
  /\ UNCHANGED <<modelFlag, inputFlag, inputOption, env, modelName, inputSeriesName, prompt,
                 entered, payload, invokeCalls, body, response>>

\* Whether the adapter of a model writes its debug lines to the log: llama
\* does not, the other four do.
LogsDebug(m) == m # Llama

\* The progress line of each case of the switch.
InvokingMessage(m) ==
  CASE m = Nova -> "Invoking Amazon Bedrock Nova model..."
    [] m = Llama -> "Invoking Amazon Bedrock Llama model..."
    [] m = Llama70b -> "Invoking Amazon Bedrock Llama 3.3 70B model..."
    [] m = Claude -> "Invoking Amazon Bedrock Claude 3 Sonnet model..."
    [] m = Deepseek -> "Invoking Amazon Bedrock DeepSeek model..."

\* main.go:89-134, the switch: the progress line, the echoed prompt (not for
\* llama), then the call of the adapter's InvokeModel, which first logs the
\* prompt (not llama).  A name without a case falls through and main returns.
Dispatch ==
  /\ pc = "dispatch"
  /\ IF modelName \in switchCases
     THEN /\ stdout' = stdout \o
               <<Entry("progress", <<InvokingMessage(modelName)>>, 0)>> \o
               (IF modelName = Llama THEN <<>>
                ELSE <<Entry("prompt", <<"Prompt: ">> \o prompt, 0)>>)
          /\ entered' = Append(entered, modelName)
          /\ stderr' = IF LogsDebug(modelName)
                       THEN Append(stderr, Entry("debug", <<"Sending prompt">>, 0))
                       ELSE stderr
          /\ pc' = "config"
          /\ UNCHANGED exitCode
     ELSE /\ pc' = "done"
          /\ exitCode' = 0
          /\ UNCHANGED <<stdout, stderr, entered>>
  /\ UNCHANGED <<modelFlag, inputFlag, inputOption, env, modelName, inputSeriesName, prompt,
                 payload, invokeCalls, body, response>>

\* The adapter returns the error and main ends the run: log.Fatalf("Error: %v").
ReturnError(msg) ==
  /\ Fatalf(msg)
  /\ UNCHANGED <<modelFlag, inputFlag, inputOption, env, modelName, inputSeriesName, prompt,
                 entered, payload, invokeCalls, body, response, stdout>>

\* InvokeModel: config.LoadDefaultConfig and its error return.
LoadDefaultConfig ==
  /\ pc = "config"
  /\ \/ /\ pc' = "marshal"
        /\ UNCHANGED <<modelFlag, inputFlag, inputOption, env, modelName, inputSeriesName, prompt,
                       entered, payload, invokeCalls, body, response, stdout,
                       stderr, exitCode>>
     \/ ReturnError("Error: failed to load AWS configuration")

\* InvokeModel: the payload, json.Marshal and its error return, the payload
\* logged (not llama).
MarshalPayload ==
  /\ pc = "marshal"
  /\ \/ /\ payload' = Payload(modelName, prompt)
        /\ stderr' = IF LogsDebug(modelName)
                     THEN Append(stderr, Entry("debug", <<"Payload">>, 0))
                     ELSE stderr
        /\ pc' = "invoke"
        /\ UNCHANGED <<modelFlag, inputFlag, inputOption, env, modelName, inputSeriesName, prompt,
                       entered, invokeCalls, body, response, stdout, exitCode>>
     \/ ReturnError("Error: failed to marshal payload")

\* The texts a response of a whole run carries.
RunTexts == TextsOf(MaxParts - 1)

\* Mutant of ClientInvoke: a failed call is made once more before the error
\* is returned.
ClientInvokeRetry ==
  /\ pc = "invoke"
  /\ invokeCalls' = invokeCalls + 1
  /\ \/ /\ \E b \in Bodies(modelName, RunTexts) : body' = b
        /\ stderr' = IF LogsDebug(modelName)
                     THEN Append(stderr, Entry("debug", <<"Raw response">>, 0))
                     ELSE stderr
        /\ pc' = "unmarshal"
        /\ UNCHANGED <<modelFlag, inputFlag, inputOption, env, modelName, inputSeriesName, prompt,
                       entered, payload, response, stdout, exitCode>>
     \/ /\ IF invokeCalls = 0
           THEN pc' = "invoke" /\ UNCHANGED <<stderr, exitCode>>
           ELSE Fatalf("Error: error invoking Bedrock model")
        /\ UNCHANGED <<modelFlag, inputFlag, inputOption, env, modelName, inputSeriesName, prompt,
                       entered, payload, body, response, stdout>>

\* InvokeModel: client.InvokeModel, its error return, the raw response
\* logged (not llama).
ClientInvoke ==
  /\ pc = "invoke"
  /\ invokeCalls' = invokeCalls + 1
  /\ \/ /\ \E b \in Bodies(modelName, RunTexts) : body' = b
        /\ stderr' = IF LogsDebug(modelName)
                     THEN Append(stderr, Entry("debug", <<"Raw response">>, 0))
                     ELSE stderr
        /\ pc' = "unmarshal"
        /\ UNCHANGED <<modelFlag, inputFlag, inputOption, env, modelName, inputSeriesName, prompt,
                       entered, payload, response, stdout, exitCode>>
     \/ /\ Fatalf("Error: error invoking Bedrock model")
        /\ UNCHANGED <<modelFlag, inputFlag, inputOption, env, modelName, inputSeriesName, prompt,
                       entered, payload, body, response, stdout>>

\* InvokeModel: json.Unmarshal, its error return (deepseek first logs the raw
\* structure when the bytes decode into a map), the parsed response logged
\* (not llama), the return of the response.
UnmarshalResponse ==
  /\ pc = "unmarshal"
  /\ \/ /\ body.ok
        /\ response' = body.value
        /\ stderr' = IF LogsDebug(modelName)
                     THEN Append(stderr, Entry("debug", <<"Parsed response">>, 0))
                     ELSE stderr
        /\ pc' = "print"
        /\ UNCHANGED <<modelFlag, inputFlag, inputOption, env, modelName, inputSeriesName, prompt,
                       entered, payload, invokeCalls, body, stdout, exitCode>>
     \/ /\ ~body.ok
        /\ stderr' =
             (IF modelName = Deepseek /\ body.object
              THEN Append(stderr, Entry("debug", <<"Raw response structure">>, 0))
              ELSE stderr) \o
             <<Entry("fatal", <<"Error: failed to unmarshal response">>, 0)>>
        /\ exitCode' = 1
        /\ pc' = "exited"
        /\ UNCHANGED <<modelFlag, inputFlag, inputOption, env, modelName, inputSeriesName, prompt,
                       entered, payload, invokeCalls, body, response, stdout>>

\* The two token counts of a response, as two writes.
UsageLines(usage) ==
  <<Entry("usage", <<"Input tokens: ">>, usage.InputTokens),
    Entry("usage", <<"Output tokens: ">>, usage.OutputTokens)>>

\* main returns after PrintResponse: the run ends with status 0.
Return ==
  /\ pc' = "done"
  /\ exitCode' = 0
  /\ UNCHANGED <<modelFlag, inputFlag, inputOption, env, modelName, inputSeriesName, prompt,
                 entered, payload, invokeCalls, body, response>>

\* nova.PrintResponse
NovaPrintResponse ==
  /\ pc = "print"
  /\ modelName = Nova
  /\ IF Len(response.Output.Content) > 0
     THEN /\ stdout' = Append(stdout, Entry("result", ExtractLine(response.Output.Content[1].Text), 0))
          /\ stderr' = stderr \o UsageLines(response.Usage)
     ELSE /\ stderr' = Append(stderr, Entry("nocontent", <<"No response content received from Nova model">>, 0))
          /\ UNCHANGED stdout
  /\ Return

\* claude.PrintResponse
ClaudePrintResponse ==
  /\ pc = "print"
  /\ modelName = Claude
  /\ IF Len(response.Content) > 0
     THEN /\ stdout' = Append(stdout, Entry("result", ExtractLine(response.Content[1].Text), 0))
          /\ stderr' = stderr \o UsageLines(response.Usage)
     ELSE /\ stderr' = Append(stderr, Entry("nocontent", <<"No response content received from Claude model">>, 0))
          /\ UNCHANGED stdout
  /\ Return

\* llama70b.PrintResponse
Llama70bPrintResponse ==
  /\ pc = "print"
  /\ modelName = Llama70b
  /\ stdout' = Append(stdout, Entry("result", ExtractLine(response.Generation), 0))
  /\ stderr' = stderr \o UsageLines(response.Usage)
  /\ Return

\* llama.PrintResponse
LlamaPrintResponse ==
  /\ pc = "print"
  /\ modelName = Llama
  /\ stdout' = Append(stdout, Entry("response", <<"Response: ">> \o response.Generation, 0)) \o
                 (IF response.Usage.InputTokens > 0 \/ response.Usage.OutputTokens > 0
                  THEN UsageLines(response.Usage) ELSE <<>>)
  /\ UNCHANGED stderr
  /\ Return

\* deepseek.PrintResponse
DeepseekPrintResponse ==
  /\ pc = "print"
  /\ modelName = Deepseek
  /\ stdout' = stdout \o
       (IF Len(response.Choices) > 0
        THEN <<Entry("response", <<"Response: ">> \o response.Choices[1].Message.Content, 0)>>
        ELSE <<Entry("nocontent", <<"No response content received from DeepSeek model">>, 0),
               Entry("structure", <<"Response structure: ">>, 0)>>) \o
       UsageLines(response.Usage)
  /\ UNCHANGED stderr
  /\ Return

\* ------------------------------------------------------- the specifications

\* A run of the program: the flags and the environment are its inputs.
Init ==
  /\ pc = "start"
  /\ modelFlag \in ModelFlags
  /\ inputFlag \in InputFlags
  /\ inputOption \in OptionNames
  /\ env \in Environments
  /\ modelName = <<>>
  /\ inputSeriesName = <<>>
  /\ prompt = <<>>
  /\ entered = <<>>
  /\ payload = NoPayload
  /\ invokeCalls = 0
  /\ body = NoBody
  /\ response = NoResponse
  /\ stdout = <<>>
  /\ stderr = <<>>
  /\ exitCode = -1

Next ==
  \/ Start
  \/ LoadEnvironment
  \/ Dispatch
  \/ LoadDefaultConfig
  \/ MarshalPayload
  \/ ClientInvoke
  \/ UnmarshalResponse
  \/ NovaPrintResponse
  \/ ClaudePrintResponse
  \/ Llama70bPrintResponse
  \/ LlamaPrintResponse
  \/ DeepseekPrintResponse

Spec == Init /\ [][Next]_vars

\* The extraction alone: PrintResponse of the three adapters that extract,
\* called on every decoded response over Texts, the streams observed from the
\* call on.
ExtractingModels == {Nova, Claude, Llama70b}

InitExtract ==
  /\ pc = "print"
  /\ modelFlag \in ExtractingModels
  /\ inputFlag = <<>>
  /\ inputOption = "input"
  /\ env = [AWS_ACCESS_KEY_ID |-> "AKIA", AWS_SECRET_ACCESS_KEY |-> "secret",
            AWS_REGION |-> "us-east-2"]
  /\ modelName = modelFlag
  /\ inputSeriesName = DefaultInput
  /\ prompt = Sprintf(promptTemplate, DefaultInput)
  /\ entered = <<modelName>>
  /\ payload = Payload(modelName, prompt)
  /\ invokeCalls = 1
  /\ response \in Responses(modelName, Texts)
  /\ body = [ok |-> TRUE, object |-> TRUE, value |-> response]
  /\ stdout = <<>>
  /\ stderr = <<>>
  /\ exitCode = -1

NextExtract ==
  \/ NovaPrintResponse
  \/ ClaudePrintResponse
  \/ Llama70bPrintResponse

SpecExtract == InitExtract /\ [][NextExtract]_vars

\* ---------------------------------------------------- the shapes, as stated
\* The two shapes of the extraction, stated on a text from its double quotes
\* and from what is left of it without white space.

QuotePositions(s) == {i \in 1..Len(s) : s[i] = Q}

WithoutSpace(s) == SelectSeq(s, LAMBDA c : c \notin ReSpace)

\* The k-th smallest element of a set of positions.
Nth(ps, k) == CHOOSE q \in ps : Cardinality({p \in ps : p < q}) = k - 1

\* s is "series", a colon with white space around it, and a quoted value
\* without double quotes.
IsLooseShape(s) ==
  LET qs == QuotePositions(s)
  IN /\ Cardinality(qs) = 4
     /\ 1 \in qs
     /\ Len(s) \in qs
     /\ SubSeq(s, 1, Nth(qs, 2)) = SeriesKey
     /\ WithoutSpace(SubSeq(s, Nth(qs, 2) + 1, Nth(qs, 3) - 1)) = <<":">>

LooseShapeValue(s) == SubSeq(s, Nth(QuotePositions(s), 3) + 1, Len(s) - 1)

\* s is [ { <loose shape> } ] with white space around the punctuation.
IsStrictShape(s) ==
  LET qs == QuotePositions(s)
  IN /\ Cardinality(qs) = 4
     /\ s[1] = "["
     /\ s[Len(s)] = "]"
     /\ WithoutSpace(SubSeq(s, 1, Nth(qs, 1) - 1)) = <<"[", "{">>
     /\ IsLooseShape(SubSeq(s, Nth(qs, 1), Nth(qs, 4)))
     /\ WithoutSpace(SubSeq(s, Nth(qs, 4) + 1, Len(s))) = <<"}", "]">>

StrictShapeValue(s) ==
  LooseShapeValue(SubSeq(s, Nth(QuotePositions(s), 1), Nth(QuotePositions(s), 4)))

\* The occurrences <<first, last>> of each shape in a text.
StrictOccurrences(t) ==
  {o \in {i \in 1..Len(t) : t[i] = "["} \X {j \in 1..Len(t) : t[j] = "]"} :
     o[1] < o[2] /\ IsStrictShape(SubSeq(t, o[1], o[2]))}

LooseOccurrences(t) ==
  {o \in QuotePositions(t) \X QuotePositions(t) :
     o[1] < o[2] /\ IsLooseShape(SubSeq(t, o[1], o[2]))}

Leftmost(occ) == CHOOSE o \in occ : \A p \in occ : o[1] <= p[1]

StrictValueAt(t, o) == StrictShapeValue(SubSeq(t, o[1], o[2]))

LooseValueAt(t, o) == LooseShapeValue(SubSeq(t, o[1], o[2]))

\* The decoded response carries a text: always for the completion style, when
\* the content list is not empty for the chat style.
HasText ==
  CASE modelName = Nova -> Len(response.Output.Content) > 0
    [] modelName = Claude -> Len(response.Content) > 0
    [] modelName = Deepseek -> Len(response.Choices) > 0
    [] OTHER -> TRUE

\* The canonical text of the decoded response: the generation, or the text of
\* the first content item ("" when there is none).
CanonicalText ==
  CASE modelName = Nova ->
         IF HasText THEN response.Output.Content[1].Text ELSE <<>>
    [] modelName = Claude ->
         IF HasText THEN response.Content[1].Text ELSE <<>>
    [] modelName = Deepseek ->
         IF HasText THEN response.Choices[1].Message.Content ELSE <<>>
    [] OTHER -> response.Generation

Extracted == pc = "done" /\ HasText

\* ------------------------------------------------------------------ claims

\* The one line PrintResponse wrote for a text.
WroteLine(line) == stdout = <<Entry("result", line, 0)>>

\* C1 (as amended): when the raw text contains a substring of the strict
\* shape [{"series": "X"}], the extraction writes exactly [{"series": "X"}]
\* for the X of the leftmost such substring, and nothing of the text around it.
C1_StrictLeftmost ==
  (Extracted /\ StrictOccurrences(CanonicalText) # {}) =>
    WroteLine(SeriesLine(StrictValueAt(CanonicalText,
                                       Leftmost(StrictOccurrences(CanonicalText)))))

\* C1 (as claimed): for every substring of the strict shape the raw text
\* contains, with value X, the extraction writes exactly [{"series": "X"}].
C1_StrictEvery ==
  Extracted =>
    \A o \in StrictOccurrences(CanonicalText) :
      WroteLine(SeriesLine(StrictValueAt(CanonicalText, o)))

\* C1, the case: text precedes the leftmost strict occurrence, a second
\* occurrence with another value follows it, and the line written carries the
\* value of the leftmost.
C1_Witness ==
  /\ Extracted
  /\ \E o1, o2 \in StrictOccurrences(CanonicalText) :
       /\ 1 < o1[1]
       /\ o1[1] < o2[1]
       /\ StrictValueAt(CanonicalText, o1) # StrictValueAt(CanonicalText, o2)
       /\ WroteLine(SeriesLine(StrictValueAt(CanonicalText, o1)))

\* C2 (as amended): when the raw text contains the fragment "series": "X"
\* and no substring of the strict shape, the extraction writes
\* [{"series": "X"}] for the X of the leftmost such fragment.
C2_LooseLeftmost ==
  (/\ Extracted
   /\ StrictOccurrences(CanonicalText) = {}
   /\ LooseOccurrences(CanonicalText) # {}) =>
    WroteLine(SeriesLine(LooseValueAt(CanonicalText,
                                      Leftmost(LooseOccurrences(CanonicalText)))))

\* C2 (as claimed): for every fragment "series": "X" of a raw text without a
\* substring of the strict shape, the extraction writes [{"series": "X"}].
C2_LooseEvery ==
  (Extracted /\ StrictOccurrences(CanonicalText) = {}) =>
    \A o \in LooseOccurrences(CanonicalText) :
      WroteLine(SeriesLine(LooseValueAt(CanonicalText, o)))

\* C2, the case: no strict occurrence, two loose fragments with different
\* values, white space before the colon, and the line written carries the
\* value of the leftmost.
C2_Witness ==
  /\ Extracted
  /\ StrictOccurrences(CanonicalText) = {}
  /\ \E o1, o2 \in LooseOccurrences(CanonicalText) :
       /\ o1[1] < o2[1]
       /\ CanonicalText[o1[1] + Len(SeriesKey)] \in ReSpace
       /\ LooseValueAt(CanonicalText, o1) # LooseValueAt(CanonicalText, o2)
       /\ WroteLine(SeriesLine(LooseValueAt(CanonicalText, o1)))

\* line is text without its leading and trailing white space: text is white
\* space, then line, then white space, and line neither starts nor ends with
\* white space.
IsTrimmed(line, text) ==
  /\ \E a \in 0..Len(text) :
       /\ a + Len(line) <= Len(text)
       /\ SubSeq(text, a + 1, a + Len(line)) = line
       /\ \A i \in 1..a : text[i] \in UnicodeSpace
       /\ \A i \in (a + Len(line) + 1)..Len(text) : text[i] \in UnicodeSpace
  /\ line # <<>> => line[1] \notin UnicodeSpace /\ line[Len(line)] \notin UnicodeSpace

\* C3: for a raw text with neither shape, the extraction ends without an
\* error, writes the text without its leading and trailing white space and
\* otherwise unchanged, and applied to that line gives the line again.
C3_Fallback ==
  (/\ Extracted
   /\ StrictOccurrences(CanonicalText) = {}
   /\ LooseOccurrences(CanonicalText) = {}) =>
    /\ exitCode = 0
    /\ Len(stdout) = 1
    /\ stdout[1].kind = "result"
    /\ IsTrimmed(stdout[1].text, CanonicalText)
    /\ TrimSpace(stdout[1].text) = stdout[1].text
    /\ ExtractLine(stdout[1].text) = stdout[1].text

\* C3, the case: a text with neither shape that starts and ends with white
\* space and has white space inside, written without the first and the last.
C3_Witness ==
  /\ Extracted
  /\ StrictOccurrences(CanonicalText) = {}
  /\ LooseOccurrences(CanonicalText) = {}
  /\ Len(CanonicalText) >= 5
  /\ CanonicalText[1] \in UnicodeSpace
  /\ CanonicalText[Len(CanonicalText)] \in UnicodeSpace
  /\ WroteLine(SubSeq(CanonicalText, 2, Len(CanonicalText) - 1))
  /\ \E i \in 1..Len(stdout[1].text) : stdout[1].text[i] \in UnicodeSpace

\* name is one of the five backend names, upper and lower case taken as equal.
SameIgnoringCase(a, b) ==
  /\ Len(a) = Len(b)
  /\ \A i \in 1..Len(a) :
       \/ a[i] = b[i]
       \/ \E k \in 1..26 : {a[i], b[i]} = {UpperLetters[k], LowerLetters[k]}

KnownName(name) ==
  \E v \in {Nova, Llama, Llama70b, Claude, Deepseek} : SameIgnoringCase(name, v)

\* The run ended with a fatal error, and no adapter and no call was reached.
EndedFatalWithoutCall ==
  /\ pc = "exited"
  /\ exitCode > 0
  /\ entered = <<>>
  /\ invokeCalls = 0

\* C4 (as amended): for every backend name that is none of the five names in
\* any spelling of upper and lower case, the run ends with a non-zero status
\* and no adapter's InvokeModel and no external call is reached.
C4_UnknownNameIgnoringCase ==
  (pc # "start" /\ ~KnownName(modelFlag)) => EndedFatalWithoutCall

\* C4 (as claimed): for every backend name outside the set of the five names,
\* the run ends with a non-zero status and the external call is made zero times.
C4_UnknownNameLiteral ==
  (pc # "start" /\ modelFlag \notin {Nova, Llama, Llama70b, Claude, Deepseek}) =>
    EndedFatalWithoutCall

\* C4, the case: the name "gpt", with all credentials present, ended fatally
\* with the message of the validation and without a call.
C4_Witness ==
  /\ modelFlag = <<"g", "p", "t">>
  /\ ~MissingCredentials(env.AWS_ACCESS_KEY_ID, env.AWS_SECRET_ACCESS_KEY, env.AWS_REGION)
  /\ EndedFatalWithoutCall
  /\ stdout = <<>>
  /\ Len(stderr) = 1
  /\ stderr[1].kind = "fatal"

\* One of the three values is the empty string.
OneValueEmpty ==
  \E k \in {"AWS_ACCESS_KEY_ID", "AWS_SECRET_ACCESS_KEY", "AWS_REGION"} : env[k] = ""

C6_StdoutOneResultLine ==
  pc = "done" =>
    /\ Len(stdout) = 1
    /\ stdout[1].kind = "result"
    /\ \A i \in 1..Len(stdout[1].text) : stdout[1].text[i] # "\n"

\* C7 (as claimed; the code differs): no token count is ever written to
\* standard output.
C7_NoUsageOnStdout ==
  \A i \in 1..Len(stdout) : stdout[i].kind # "usage"

\* C8 (as claimed; the code differs): for every backend, the result written
\* for a decoded response with a text is the three-step extraction of its
\* canonical text, and the text is not written verbatim instead.
C8_UniformExtraction ==
  Extracted =>
    /\ \E i \in 1..Len(stdout) : stdout[i] = Entry("result", ExtractLine(CanonicalText), 0)
    /\ \A i \in 1..Len(stdout) : stdout[i].kind # "response"

\* C9 (as claimed; the code differs): a chat-style response with an empty
\* content list ends the run successfully with the extraction of the empty
\* text, the empty line, written as the result; with a content list that is
\* not empty the result is the extraction of the first item's text.
C9_EmptyContentExtracted ==
  (pc = "done" /\ modelName \in {Nova, Claude}) =>
    /\ exitCode = 0
    /\ stdout[Len(stdout)] = Entry("result", ExtractLine(CanonicalText), 0)

\* The run is inside an adapter or past it.
InAdapter == pc \in {"config", "marshal", "invoke", "unmarshal", "print", "done"}

Ended == pc \in {"done", "exited"}

\* The messages main logs when an adapter's InvokeModel returned an error.
AdapterErrorMessages ==
  { <<"Error: failed to load AWS configuration">>,
    <<"Error: failed to marshal payload">>,
    <<"Error: error invoking Bedrock model">>,
    <<"Error: failed to unmarshal response">> }

\* The adapter returned an error: main logged it as the fatal message.
AdapterReturnedError ==
  \E i \in 1..Len(stderr) :
    stderr[i].kind = "fatal" /\ stderr[i].text \in AdapterErrorMessages

\* C11 (as claimed; the code differs): the exit status of a run that has ended
\* is 0 exactly when the model name is known, the three values of the
\* environment are present and the adapter returned no error; otherwise it is
\* not 0.
C11_ExitStatusZeroExactly ==
  Ended =>
    /\ exitCode # -1
    /\ exitCode = 0 <=>
         /\ KnownName(modelFlag)
         /\ ~OneValueEmpty
         /\ ~AdapterReturnedError

\* The same statement on the runs whose text is given with -input: it holds
\* there, so the runs that differ are the runs with the other option name.
ExitStatusZeroExactlyWithInput ==
  (Ended /\ inputOption = "input") =>
    /\ exitCode \in {0, 1}
    /\ exitCode = 0 <=>
         /\ KnownName(modelFlag)
         /\ ~OneValueEmpty
         /\ ~AdapterReturnedError

\* C12 (as claimed; the code differs): a run that ends fatally ends with a
\* status that is not 0 and with a message as the last entry of the log, and
\* at that moment nothing has been written to standard output.
C12_FatalNoPartialOutput ==
  pc = "exited" =>
    /\ exitCode > 0
    /\ Len(stderr) > 0
    /\ stderr[Len(stderr)].kind \in {"fatal", "flagerror"}
    /\ stdout = <<>>

\* The status and the message alone hold on every fatal end; what differs is
\* standard output.
FatalStatusAndMessage ==
  pc = "exited" =>
    /\ exitCode > 0
    /\ Len(stderr) > 0
    /\ stderr[Len(stderr)].kind \in {"fatal", "flagerror"}

\* The occurrences of the pattern that decides the result of a text: the
\* strict shape when the text contains it, the loose fragment otherwise.
DecidingOccurrences(t) ==
  IF StrictOccurrences(t) # {} THEN StrictOccurrences(t) ELSE LooseOccurrences(t)

DecidingValueAt(t, o) ==
  IF StrictOccurrences(t) # {} THEN StrictValueAt(t, o) ELSE LooseValueAt(t, o)

\* The characters [{"series": "v"}] for the characters v.
VerbatimLine(v) ==
  <<"[", "{", Q, "s", "e", "r", "i", "e", "s", Q, ":", " ", Q>> \o v \o <<Q, "}", "]">>

\* C13: when the deciding pattern occurs more than once in the raw text, the
\* line written is [{"series": "V"}] for the value V of the leftmost
\* occurrence, character for character: its white space, inside and at both
\* ends, and the case of its letters are those of the text.
C13_LeftmostVerbatim ==
  (Extracted /\ Cardinality(DecidingOccurrences(CanonicalText)) > 1) =>
    /\ Len(stdout) = 1
    /\ stdout[1].kind = "result"
    /\ stdout[1].text =
         VerbatimLine(DecidingValueAt(CanonicalText,
                                      Leftmost(DecidingOccurrences(CanonicalText))))

\* C13, the case: two occurrences with different values, the leftmost value
\* " b B " with white space at both ends and inside and letters of both
\* cases, written as it stands.
C13_Witness ==
  /\ Extracted
  /\ \E o1, o2 \in DecidingOccurrences(CanonicalText) :
       /\ o1[1] < o2[1]
       /\ DecidingValueAt(CanonicalText, o1) = <<" ", "b", " ", "B", " ">>
       /\ DecidingValueAt(CanonicalText, o2) # DecidingValueAt(CanonicalText, o1)
  /\ Len(stdout) = 1
  /\ stdout[1].text = VerbatimLine(<<" ", "b", " ", "B", " ">>)

\* The prompt text a payload carries.
PayloadPrompt ==
  CASE modelName = Nova -> payload.Messages[1].Content[1].Text
    [] modelName = Claude -> payload.Messages[1].Content[1].Text
    [] modelName = Deepseek -> payload.Messages[1].Content
    [] OTHER -> payload.Prompt

\* The user's text is in the template and the payload carries that prompt.
TextFillsPrompt ==
  /\ prompt = Sprintf(promptTemplate, IF inputFlag = <<>> THEN DefaultInput ELSE inputFlag)
  /\ payload # NoPayload => PayloadPrompt = prompt

\* C14 (as claimed; the code differs): with either option name, -prompt or
\* -input, the command line is accepted, the user's text is filled into the
\* template and the payload built for the backend carries that prompt.
C14_EitherOptionFillsPrompt ==
  pc # "start" =>
    /\ \A i \in 1..Len(stderr) : stderr[i].kind # "flagerror"
    /\ TextFillsPrompt

\* The same statement for -input alone holds.
InputOptionFillsPrompt ==
  (pc # "start" /\ inputOption = "input") =>
    /\ \A i \in 1..Len(stderr) : stderr[i].kind # "flagerror"
    /\ TextFillsPrompt

\* The documented table of sampling parameters of a backend (temperature and
\* top_p in thousandths), with the prompt p.
DocumentedPayload(m, p) ==
  CASE m = Nova ->
         [InferenceConfig |-> [MaxNewTokens |-> 512, Temperature |-> 700, TopP |-> 900],
          Messages |-> <<[Role |-> "user", Content |-> <<[Text |-> p]>>]>>]
    [] m = Llama ->
         [Prompt |-> p, MaxGenLen |-> 512, Temperature |-> 700, TopP |-> 900]
    [] m = Llama70b ->
         [Prompt |-> p, MaxGenLen |-> 512, Temperature |-> 500, TopP |-> 900]
    [] m = Claude ->
         [AnthropicVersion |-> "bedrock-2023-05-31", MaxTokens |-> 200, TopK |-> 250,
          StopSequences |-> <<>>, Temperature |-> 1000, TopP |-> 999,
          Messages |-> <<[Role |-> "user", Content |-> <<[Type |-> "text", Text |-> p]>>]>>]
    [] m = Deepseek ->
         [InferenceConfig |-> [MaxTokens |-> 512],
          Messages |-> <<[Role |-> "user", Content |-> p]>>]

\* C15 (as claimed; the code differs): every payload an adapter has built is
\* the documented table of its backend with the prompt of the run, so two
\* payloads of one backend differ in the prompt text only.
C15_DocumentedParameters ==
  payload # NoPayload => payload = DocumentedPayload(modelName, prompt)

\* The same statement for the four backends other than llama70b holds.
DocumentedParametersButLlama70b ==
  (payload # NoPayload /\ modelName # Llama70b) =>
    payload = DocumentedPayload(modelName, prompt)

\* The payload of llama70b is one fixed table with the prompt of the run.
Llama70bParametersFixed ==
  (payload # NoPayload /\ modelName = Llama70b) =>
    payload = [Prompt |-> prompt, MaxGenLen |-> 64, Temperature |-> 10, TopP |-> 500]

\* A temperature, in thousandths, within [0, 1].
TemperatureInRange(t) == t \in 0..1000

\* A top-p, in thousandths, greater than 0 and at most 1.
TopPInRange(t) == t \in 1..1000

PositiveInteger(n) == n \in Nat /\ n > 0

\* C16: in every payload an adapter has built, the temperature is within
\* [0, 1], top-p is greater than 0 and at most 1, and the maximum of tokens
\* and top-k are positive integers.
C16_ParametersInRange ==
  payload # NoPayload =>
    CASE modelName = Nova ->
           /\ PositiveInteger(payload.InferenceConfig.MaxNewTokens)
           /\ TemperatureInRange(payload.InferenceConfig.Temperature)
           /\ TopPInRange(payload.InferenceConfig.TopP)
      [] modelName = Claude ->
           /\ PositiveInteger(payload.MaxTokens)
           /\ PositiveInteger(payload.TopK)
           /\ TemperatureInRange(payload.Temperature)
           /\ TopPInRange(payload.TopP)
      [] modelName = Deepseek ->
           PositiveInteger(payload.InferenceConfig.MaxTokens)
      [] OTHER ->
           /\ PositiveInteger(payload.MaxGenLen)
           /\ TemperatureInRange(payload.Temperature)
           /\ TopPInRange(payload.TopP)

\* C16, the case: the payload of llama70b, with the lowest temperature and
\* top-p of the five, has been built and sent.
C16_Witness ==
  /\ modelName = Llama70b
  /\ invokeCalls = 1
  /\ payload.Prompt = prompt
  /\ payload.Temperature > 0
  /\ payload.TopP > 0

\* C17: the strict shape has priority over position: when the raw text
\* contains the strict shape anywhere, the line written carries the value of
\* its leftmost occurrence, whatever bare fragment stands to the left of it;
\* the value of the leftmost bare fragment is written only when the text
\* contains no strict shape, and the trimmed text only when it contains
\* neither.
C17_LayerPriority ==
  Extracted =>
    LET t == CanonicalText
        line == stdout[1].text
    IN /\ Len(stdout) = 1
       /\ StrictOccurrences(t) # {} =>
            line = VerbatimLine(StrictValueAt(t, Leftmost(StrictOccurrences(t))))
       /\ (StrictOccurrences(t) = {} /\ LooseOccurrences(t) # {}) =>
            line = VerbatimLine(LooseValueAt(t, Leftmost(LooseOccurrences(t))))
       /\ (StrictOccurrences(t) = {} /\ LooseOccurrences(t) = {}) =>
            IsTrimmed(line, t)

\* C17, the case: a bare fragment with value Y ends before the leftmost
\* strict occurrence begins, the strict value X differs from Y, and the line
\* written carries X.
C17_Witness ==
  /\ Extracted
  /\ StrictOccurrences(CanonicalText) # {}
  /\ \E l \in LooseOccurrences(CanonicalText) :
       LET s == Leftmost(StrictOccurrences(CanonicalText))
       IN /\ l[2] < s[1]
          /\ LooseValueAt(CanonicalText, l) # StrictValueAt(CanonicalText, s)
          /\ LooseValueAt(CanonicalText, l) # <<>>
          /\ stdout = <<Entry("result", VerbatimLine(StrictValueAt(CanonicalText, s)), 0)>>

\* The positions of standard output that hold the result of a run: the line
\* of the extraction, or the "Response: ..." line of llama and deepseek.
ResultPositions == {i \in 1..Len(stdout) : stdout[i].kind \in {"result", "response"}}

\* The two token counts of the decoded response are reported after the entry
\* i of standard output: as the next two entries there, or as the last two
\* entries of the log, which PrintResponse writes after the result.
UsageReportedAfter(i) ==
  \/ /\ Len(stdout) >= i + 2
     /\ SubSeq(stdout, i + 1, i + 2) = UsageLines(response.Usage)
  \/ /\ Len(stderr) >= 2
     /\ SubSeq(stderr, Len(stderr) - 1, Len(stderr)) = UsageLines(response.Usage)

\* Each step of a run has the steps before it behind it: a payload only
\* after the selection of the backend, the external call only with the
\* payload, a decoded response only from the body of that call, a result only
\* from a response decoded without error.
StepsInOrder ==
  /\ payload # NoPayload => (entered = <<modelName>> /\ payload = Payload(modelName, prompt))
  /\ invokeCalls > 0 => payload # NoPayload
  /\ body # NoBody => invokeCalls = 1
  /\ response # NoResponse => (body.ok /\ response = body.value)
  /\ ResultPositions # {} => (pc = "done" /\ body.ok /\ response = body.value)

\* C18 (as claimed; the code differs): the steps of a run are in order, and
\* whenever a result has been printed the token counts of the same response
\* are reported after it.
C18_ResultThenUsage ==
  /\ StepsInOrder
  /\ \A i \in ResultPositions : UsageReportedAfter(i)

\* The same statement holds when the llama backend with both counts 0 is left
\* aside.
ResultThenUsageButLlamaZero ==
  /\ StepsInOrder
  /\ \A i \in ResultPositions :
       \/ UsageReportedAfter(i)
       \/ modelName = Llama /\ response.Usage = [InputTokens |-> 0, OutputTokens |-> 0]

\* C19: the extraction applied to the line it wrote gives that line again,
\* for every raw text: a line [{"series": "X"}] has the strict shape with the
\* same X, and a fallback line has neither shape and no white space around it.
C19_ExtractionIdempotent ==
  Extracted =>
    LET line == stdout[1].text
    IN /\ Len(stdout) = 1
       /\ ExtractLine(line) = line
       /\ \/ /\ StrictOccurrences(line) = {<<1, Len(line)>>}
             /\ line = VerbatimLine(StrictValueAt(line, <<1, Len(line)>>))
          \/ /\ StrictOccurrences(line) = {}
             /\ LooseOccurrences(line) = {}
             /\ IsTrimmed(line, line)

\* C19, the cases: a structured line written for a text that is not that line
\* itself, and a fallback line written for a text with white space around it;
\* each is a fixed point of the extraction.
C19_Witness ==
  /\ Extracted
  /\ StrictOccurrences(CanonicalText) = {}
  /\ LooseOccurrences(CanonicalText) # {}
  /\ stdout[1].text # CanonicalText
  /\ StrictOccurrences(stdout[1].text) # {}
  /\ ExtractLine(stdout[1].text) = stdout[1].text

FallbackFixedPointCase ==
  /\ Extracted
  /\ StrictOccurrences(CanonicalText) = {}
  /\ LooseOccurrences(CanonicalText) = {}
  /\ stdout[1].text # CanonicalText
  /\ stdout[1].text # <<>>
  /\ ExtractLine(stdout[1].text) = stdout[1].text

\* The message of the validation at main.go:65-67.
EmptyInputMessage ==
  <<"Input series name cannot be empty. Provide a valid input using the -input flag.">>

\* The text between the two fixed parts of the template in a prompt: the
\* INPUT field.
InputField(p) == SubSeq(p, 2, Len(p) - 1)

====
